---- MODULE Spec2Model ----
(***************************************************************************)
(* Model of the useCondition hook (src/src/index.ts): a chain of branch    *)
(* records built by when/then, match/case/render and fallback, resolved by *)
(* otherwise.  Records are objects on a heap, so that the array returned   *)
(* by getConditions shares them with the handle, as in JavaScript.         *)
(***************************************************************************)
EXTENDS Integers, Sequences, FiniteSets, TLC

(* ---- bounds ---- *)
MaxId == 3
MaxLen == 2
MaxNum == 2
MaxPasses == 2

(* ---- JavaScript values: a kind and an integer code ---- *)
JS(k, v) == [k |-> k, v |-> v]
Null == JS("null", 0)
Undefined == JS("undefined", 0)
JSTrue == JS("bool", 1)
JSFalse == JS("bool", 0)
NaN == JS("nan", 0)
Num(n) == JS("num", n)
Str(n) == JS("str", n)
Elem(n) == JS("elem", n)
Fn(n) == JS("fn", n)
Api == JS("api", 0)

(* typeof x *)
TypeOf(x) ==
  CASE x.k = "bool" -> "boolean"
    [] x.k \in {"num", "nan"} -> "number"
    [] x.k = "str" -> "string"
    [] x.k = "undefined" -> "undefined"
    [] x.k = "fn" -> "function"
    [] OTHER -> "object"

(* Boolean(x); Str(0) is the empty string *)
ToBoolean(x) ==
  CASE x.k \in {"null", "undefined", "nan"} -> FALSE
    [] x.k \in {"bool", "num", "str"} -> x.v # 0
    [] OTHER -> TRUE

(* a === b *)
StrictEquals(a, b) == a.k # "nan" /\ a = b

(* Number.isNaN(x) *)
NumberIsNaN(x) == x.k = "nan"

(* ---- comparators: function values Fn(c) ---- *)
CmpDefault == 0
CmpStrict == 1
CmpThrowing == 2
CmpGte == 3

(* Faulty variant, for sensitivity of the properties: the default comparator without its NaN check *)
defaultComparator_strictOnly(value, matchValue) == StrictEquals(value, matchValue)

defaultComparator(value, matchValue) ==
  IF NumberIsNaN(value) /\ NumberIsNaN(matchValue) THEN TRUE
  ELSE StrictEquals(value, matchValue)

comparators_strict(a, b) == StrictEquals(a, b)

(* Faulty variant, for sensitivity of the properties: the upper bound is not part of the range *)
comparators_range_exclusive(value, min, max) == value >= min /\ value < max

(* comparators.range, on integers *)
comparators_range(value, min, max) == value >= min /\ value <= max

(* Faulty variant, for sensitivity of the properties: the threshold itself does not pass *)
comparator_gt(a, b) ==
  /\ a.k \in {"num", "bool", "null"}
  /\ b.k \in {"num", "bool", "null"}
  /\ a.v > b.v

(* (a, b) => a >= b, the comparator of the documented grading chain: numbers,
   booleans (0, 1) and null (0) compare as numbers; NaN and undefined never
   pass; other operands are not used with it here and are taken not to pass *)
comparator_gte(a, b) ==
  /\ a.k \in {"num", "bool", "null"}
  /\ b.k \in {"num", "bool", "null"}
  /\ a.v >= b.v

(* Faulty variant, for sensitivity of the properties: a comparator that throws counts as a match *)
Call_throwIsTrue(f, a, b) ==
  CASE f.v = CmpDefault -> IF defaultComparator(a, b) THEN "true" ELSE "false"
    [] f.v = CmpStrict -> IF comparators_strict(a, b) THEN "true" ELSE "false"
    [] f.v = CmpGte -> IF comparator_gte(a, b) THEN "true" ELSE "false"
    [] OTHER -> "true"

(* the outcome of calling comparator f: "true", "false" or "throw" *)
Call(f, a, b) ==
  CASE f.v = CmpDefault -> IF defaultComparator(a, b) THEN "true" ELSE "false"
    [] f.v = CmpStrict -> IF comparators_strict(a, b) THEN "true" ELSE "false"
    [] f.v = CmpGte -> IF comparator_gte(a, b) THEN "true" ELSE "false"
    [] OTHER -> "throw"

(* ---- state ---- *)
VARIABLES conditions, meta, heap, conditionIdCounter, diag, result, snapshot, trace

vars == <<conditions, meta, heap, conditionIdCounter, diag, result, snapshot, trace>>

prog == <<conditions, meta, heap, conditionIdCounter, diag, result, snapshot>>

Handles == DOMAIN conditions

(* the program state as one value, so that an operation is a function on it *)
Cur ==
  [conditions |-> conditions, meta |-> meta, heap |-> heap,
   conditionIdCounter |-> conditionIdCounter, diag |-> diag, result |-> result,
   snapshot |-> snapshot]

Set(s) ==
  /\ conditions' = s.conditions
  /\ meta' = s.meta
  /\ heap' = s.heap
  /\ conditionIdCounter' = s.conditionIdCounter
  /\ diag' = s.diag
  /\ result' = s.result
  /\ snapshot' = s.snapshot

(* the ConditionMeta a handle is created with, and reset restores *)
InitMeta ==
  [matchedIndex |-> -1, value |-> Null, comparator |-> Fn(CmpDefault),
   isInMatchMode |-> FALSE]

(* one console call *)
Diag(sev, msg, found, n) == [sev |-> sev, msg |-> msg, found |-> found, n |-> n]
Warn(msg) == Diag("warn", msg, "", 0)
Error(msg) == Diag("error", msg, "", 0)

(* the record at position i (1-based) of handle h, in s and in the current state *)
R(s, h, i) == s.heap[s.conditions[h][i]]
Rec(h, i) == heap[conditions[h][i]]

(* the addresses a state keeps alive: the handles' arrays and the snapshot *)
Live(s) ==
  UNION {{s.conditions[h][i] : i \in 1..Len(s.conditions[h])} : h \in DOMAIN s.conditions}
    \cup {s.snapshot.refs[i] : i \in 1..Len(s.snapshot.refs)}

Collect(s) == [s EXCEPT !.heap = [a \in (DOMAIN s.heap) \cap Live(s) |-> s.heap[a]]]

NoSnapshot == [taken |-> FALSE, owner |-> 0, refs |-> <<>>]

(* the history kept for the properties; mode selects what is recorded *)
NoCount == [when |-> 0, case |-> 0, fallback |-> FALSE]

NoTrace ==
  [mode |-> "off", pc |-> 0, last |-> "",
   outer |-> [recs |-> <<>>, meta |-> InitMeta], inner |-> Undefined,
   lastMatch |-> <<>>, count |-> NoCount, written |-> -1,
   passes |-> 0, args |-> <<>>, out |-> Undefined, since |-> {}]

InitFor(H) ==
  /\ conditions = [h \in H |-> <<>>]
  /\ meta = [h \in H |-> InitMeta]
  /\ heap = <<>>
  /\ conditionIdCounter = 0
  /\ diag = [h \in H |-> <<>>]
  /\ result = [h \in H |-> Undefined]
  /\ snapshot = NoSnapshot

Init == InitFor({1}) /\ trace = NoTrace

(* the call on handle h logged ds and returned r *)
Return(s, h, ds, r) == [s EXCEPT !.diag[h] = ds, !.result[h] = r]

(* Faulty variant, for sensitivity of the properties: the new record goes to the front of the array *)
push_atFront(s, h, prefix, rec) ==
  LET n == s.conditionIdCounter + 1 IN
  [s EXCEPT !.conditionIdCounter = n,
            !.conditions[h] = <<n>> \o @,
            !.heap = [a \in DOMAIN s.heap \cup {n} |->
                        IF a = n THEN [rec EXCEPT !.id = <<prefix, n>>] ELSE s.heap[a]]]

(* conditions.current.push(rec) with id `${prefix}-${++conditionIdCounter}` *)
push(s, h, prefix, rec) ==
  LET n == s.conditionIdCounter + 1 IN
  [s EXCEPT !.conditionIdCounter = n,
            !.conditions[h] = Append(@, n),
            !.heap = [a \in DOMAIN s.heap \cup {n} |->
                        IF a = n THEN [rec EXCEPT !.id = <<prefix, n>>] ELSE s.heap[a]]]

(* a step to s, taken only while the id counter and the arrays stay in bounds *)
Step(s) ==
  /\ s.conditionIdCounter <= MaxId
  /\ \A h \in DOMAIN s.conditions : Len(s.conditions[h]) <= MaxLen
  /\ Set(s)

(* Faulty variant, for sensitivity of the properties: when on a resolved chain starts a new chain *)
when_startsNewPass(s, h, condition) ==
  LET t == IF s.meta[h].matchedIndex # -1
           THEN [s EXCEPT !.conditions[h] = <<>>, !.meta[h].matchedIndex = -1]
           ELSE s
  IN Return(push(t, h, "when",
                 [type |-> "when",
                  condition |-> IF ToBoolean(condition) THEN JSTrue ELSE JSFalse,
                  matchValue |-> Undefined, component |-> Null, id |-> <<>>]),
            h,
            IF TypeOf(condition) # "boolean" THEN <<Warn("when-expects-boolean")>> ELSE <<>>,
            Api)

(* Faulty variant, for sensitivity of the properties: when forgets the last resolution *)
when_clearsIndex(s, h, condition) ==
  Return(push([s EXCEPT !.meta[h].matchedIndex = -1], h, "when",
              [type |-> "when",
               condition |-> IF ToBoolean(condition) THEN JSTrue ELSE JSFalse,
               matchValue |-> Undefined, component |-> Null, id |-> <<>>]),
         h,
         IF TypeOf(condition) # "boolean" THEN <<Warn("when-expects-boolean")>> ELSE <<>>,
         Api)

(* Faulty variant, for sensitivity of the properties: when stores its argument as it is *)
when_storesRaw(s, h, condition) ==
  Return(push(s, h, "when",
              [type |-> "when", condition |-> condition,
               matchValue |-> Undefined, component |-> Null, id |-> <<>>]),
         h,
         IF TypeOf(condition) # "boolean" THEN <<Warn("when-expects-boolean")>> ELSE <<>>,
         Api)

(* ---- when ---- *)
when(s, h, condition) ==
  Return(push(s, h, "when",
              [type |-> "when",
               condition |-> IF ToBoolean(condition) THEN JSTrue ELSE JSFalse,
               matchValue |-> Undefined, component |-> Null, id |-> <<>>]),
         h,
         IF TypeOf(condition) # "boolean" THEN <<Warn("when-expects-boolean")>> ELSE <<>>,
         Api)

(* ---- validateChaining ---- *)
(* the warnings validateChaining logs; it returns true iff there are none *)
validateChaining(s, h, expectedPrevious, operation) ==
  LET n == Len(s.conditions[h]) IN
  IF n = 0
  THEN <<Diag("warn", operation \o "-without-preceding-condition", "", 0)>>
  ELSE IF expectedPrevious = "when" /\ R(s, h, n).type # "when"
  THEN <<Diag("warn", operation \o "-should-follow-when", R(s, h, n).type, 0)>>
  ELSE IF expectedPrevious = "case" /\ R(s, h, n).type # "match"
  THEN <<Diag("warn", operation \o "-should-follow-case", R(s, h, n).type, 0)>>
  ELSE <<>>

(* Faulty variant, for sensitivity of the properties: the payload goes to the first when/match record that has none *)
attach_firstIncomplete(s, h, component, operation) ==
  LET n == Len(s.conditions[h])
      I == {i \in 1..n : R(s, h, i).type \in {"when", "match"} /\ R(s, h, i).component = Null}
      a == s.conditions[h][IF I = {} THEN n ELSE CHOOSE i \in I : \A j \in I : i <= j]
  IN Return([s EXCEPT !.heap[a].component = component], h,
            IF s.heap[a].component # Null THEN <<Warn("multiple-" \o operation)>> ELSE <<>>,
            Api)

(* Faulty variant, for sensitivity of the properties: the 'multiple' warning is logged on every accepted call *)
attach_alwaysWarns(s, h, component, operation) ==
  LET a == s.conditions[h][Len(s.conditions[h])] IN
  Return([s EXCEPT !.heap[a].component = component], h,
         <<Warn("multiple-" \o operation)>>, Api)

(* lastCondition.component = component, after the 'multiple' warning *)
attach(s, h, component, operation) ==
  LET a == s.conditions[h][Len(s.conditions[h])] IN
  Return([s EXCEPT !.heap[a].component = component], h,
         IF s.heap[a].component # Null THEN <<Warn("multiple-" \o operation)>> ELSE <<>>,
         Api)

(* Faulty variant, for sensitivity of the properties: then warns about a wrong predecessor but still writes the payload *)
then_attachesAnyway(s, h, component) ==
  IF Len(s.conditions[h]) = 0
  THEN Return(s, h, validateChaining(s, h, "when", "then"), Api)
  ELSE Return(attach(s, h, component, "then"), h, validateChaining(s, h, "when", "then"), Api)

(* ---- then ---- *)
then(s, h, component) ==
  IF validateChaining(s, h, "when", "then") # <<>>
  THEN Return(s, h, validateChaining(s, h, "when", "then"), Api)
  ELSE attach(s, h, component, "then")

(* Faulty variant, for sensitivity of the properties: a match context that is open keeps its subject and comparator *)
match_keepsFirst(s, h, value, comparator) ==
  LET given == IF comparator = Undefined THEN Fn(CmpDefault) ELSE comparator
      callable == TypeOf(given) = "function"
  IN IF s.meta[h].isInMatchMode
     THEN Return(s, h, <<Warn("multiple-match")>>, Api)
     ELSE Return([s EXCEPT !.meta[h].value = value,
                           !.meta[h].comparator = IF callable THEN given ELSE Fn(CmpDefault),
                           !.meta[h].isInMatchMode = TRUE],
                 h, IF ~callable THEN <<Warn("comparator-not-function")>> ELSE <<>>, Api)

(* Faulty variant, for sensitivity of the properties: match also forgets the last resolution *)
match_resetsIndex(s, h, value, comparator) ==
  LET given == IF comparator = Undefined THEN Fn(CmpDefault) ELSE comparator
      callable == TypeOf(given) = "function"
  IN Return([s EXCEPT !.meta[h] = [matchedIndex |-> -1, value |-> value,
                                   comparator |-> IF callable THEN given ELSE Fn(CmpDefault),
                                   isInMatchMode |-> TRUE]],
            h,
            (IF s.meta[h].isInMatchMode THEN <<Warn("multiple-match")>> ELSE <<>>)
              \o (IF ~callable THEN <<Warn("comparator-not-function")>> ELSE <<>>),
            Api)

(* Faulty variant, for sensitivity of the properties: match evaluates the existing match records again, with the new subject and comparator *)
match_reevaluates(s, h, value, comparator) ==
  LET given == IF comparator = Undefined THEN Fn(CmpDefault) ELSE comparator
      callable == TypeOf(given) = "function"
      inForce == IF callable THEN given ELSE Fn(CmpDefault)
      mine == {s.conditions[h][i] : i \in 1..Len(s.conditions[h])}
  IN Return([s EXCEPT !.meta[h].value = value,
                      !.meta[h].comparator = inForce,
                      !.meta[h].isInMatchMode = TRUE,
                      !.heap = [a \in DOMAIN s.heap |->
                                  IF a \in mine /\ s.heap[a].type = "match"
                                  THEN [s.heap[a] EXCEPT !.condition =
                                          IF Call(inForce, value, s.heap[a].matchValue) = "true"
                                          THEN JSTrue ELSE JSFalse]
                                  ELSE s.heap[a]]],
            h,
            (IF s.meta[h].isInMatchMode THEN <<Warn("multiple-match")>> ELSE <<>>)
              \o (IF ~callable THEN <<Warn("comparator-not-function")>> ELSE <<>>),
            Api)

(* Faulty variant, for sensitivity of the properties: match installs whatever it is given as comparator *)
match_trustsComparator(s, h, value, comparator) ==
  LET given == IF comparator = Undefined THEN Fn(CmpDefault) ELSE comparator IN
  Return([s EXCEPT !.meta[h].value = value,
                   !.meta[h].comparator = given,
                   !.meta[h].isInMatchMode = TRUE],
         h,
         IF s.meta[h].isInMatchMode THEN <<Warn("multiple-match")>> ELSE <<>>,
         Api)

(* ---- match ---- *)
(* comparator = Undefined stands for the omitted argument *)
match(s, h, value, comparator) ==
  LET given == IF comparator = Undefined THEN Fn(CmpDefault) ELSE comparator
      callable == TypeOf(given) = "function"
  IN Return([s EXCEPT !.meta[h].value = value,
                      !.meta[h].comparator = IF callable THEN given ELSE Fn(CmpDefault),
                      !.meta[h].isInMatchMode = TRUE],
            h,
            (IF s.meta[h].isInMatchMode THEN <<Warn("multiple-match")>> ELSE <<>>)
              \o (IF ~callable THEN <<Warn("comparator-not-function")>> ELSE <<>>),
            Api)

(* Faulty variant, for sensitivity of the properties: case does not look at isInMatchMode *)
case_withoutContextCheck(s, h, matchValue) ==
  LET outcome == Call(s.meta[h].comparator, s.meta[h].value, matchValue) IN
  Return(push(s, h, "case",
              [type |-> "match",
               condition |-> IF outcome = "true" THEN JSTrue ELSE JSFalse,
               matchValue |-> matchValue, component |-> Null, id |-> <<>>]),
         h,
         IF outcome = "throw" THEN <<Error("comparator-threw")>> ELSE <<>>,
         Api)

(* Faulty variant, for sensitivity of the properties: case has no try/catch around the comparator, so its exception reaches the caller *)
case_propagates(s, h, matchValue) ==
  IF ~s.meta[h].isInMatchMode
  THEN Return(s, h, <<Warn("case-without-match")>>, Api)
  ELSE LET outcome == Call(s.meta[h].comparator, s.meta[h].value, matchValue) IN
       IF outcome = "throw"
       THEN Return(s, h, <<>>, JS("throw", 0))
       ELSE Return(push(s, h, "case",
                        [type |-> "match",
                         condition |-> IF outcome = "true" THEN JSTrue ELSE JSFalse,
                         matchValue |-> matchValue, component |-> Null, id |-> <<>>]),
                   h, <<>>, Api)

(* ---- case ---- *)
case(s, h, matchValue) ==
  IF ~s.meta[h].isInMatchMode
  THEN Return(s, h, <<Warn("case-without-match")>>, Api)
  ELSE LET outcome == Call(s.meta[h].comparator, s.meta[h].value, matchValue) IN
       Return(push(s, h, "case",
                   [type |-> "match",
                    condition |-> IF outcome = "true" THEN JSTrue ELSE JSFalse,
                    matchValue |-> matchValue, component |-> Null, id |-> <<>>]),
              h,
              IF outcome = "throw" THEN <<Error("comparator-threw")>> ELSE <<>>,
              Api)

(* ---- render ---- *)
render(s, h, component) ==
  IF validateChaining(s, h, "case", "render") # <<>>
  THEN Return(s, h, validateChaining(s, h, "case", "render"), Api)
  ELSE attach(s, h, component, "render")

(* Faulty variant, for sensitivity of the properties: the existing fallback record is never found *)
findFallback_none(s, h) == 0

(* conditions.current.find(c => c.type === "fallback"): its position, 0 if none *)
findFallback(s, h) ==
  IF \E i \in 1..Len(s.conditions[h]) : R(s, h, i).type = "fallback"
  THEN CHOOSE i \in 1..Len(s.conditions[h]) :
         /\ R(s, h, i).type = "fallback"
         /\ \A j \in 1..(i - 1) : R(s, h, j).type # "fallback"
  ELSE 0

(* Faulty variant, for sensitivity of the properties: an existing fallback keeps its payload (first wins) *)
fallback_firstWins(s, h, component) ==
  LET f == findFallback(s, h) IN
  IF f # 0
  THEN Return(s, h, <<Warn("multiple-fallback")>>, Api)
  ELSE Return(push(s, h, "fallback",
                   [type |-> "fallback", condition |-> Undefined,
                    matchValue |-> Undefined, component |-> component, id |-> <<>>]),
              h, <<>>, Api)

(* Faulty variant, for sensitivity of the properties: every fallback call appends a record *)
fallback_alwaysAppends(s, h, component) ==
  Return(push(s, h, "fallback",
              [type |-> "fallback", condition |-> Undefined,
               matchValue |-> Undefined, component |-> component, id |-> <<>>]),
         h, <<>>, Api)

(* ---- fallback ---- *)
fallback(s, h, component) ==
  LET f == findFallback(s, h) IN
  IF f # 0
  THEN Return([s EXCEPT !.heap[s.conditions[h][f]].component = component], h,
              <<Warn("multiple-fallback")>>, Api)
  ELSE Return(push(s, h, "fallback",
                   [type |-> "fallback", condition |-> Undefined,
                    matchValue |-> Undefined, component |-> component, id |-> <<>>]),
              h, <<>>, Api)

(* Faulty variant, for sensitivity of the properties: debug closes the match context *)
debug_closesContext(s, h) ==
  Return([s EXCEPT !.meta[h].isInMatchMode = FALSE], h,
         <<Diag("group", "debug-info", "", s.meta[h].matchedIndex)>>, Api)

(* ---- debug ---- *)
debug(s, h) ==
  Return(s, h, <<Diag("group", "debug-info", "", s.meta[h].matchedIndex)>>, Api)

(* Faulty variant, for sensitivity of the properties: reset clears the records and the match context but leaves matchedIndex *)
reset_keepsIndex(s, h) ==
  Return(Collect([s EXCEPT !.conditions[h] = <<>>,
                           !.meta[h] = [InitMeta EXCEPT !.matchedIndex =
                                                          s.meta[h].matchedIndex]]),
         h, <<>>, Api)

(* Faulty variant, for sensitivity of the properties: reset clears the records and matchedIndex but leaves the match context *)
reset_keepsMatchContext(s, h) ==
  Return(Collect([s EXCEPT !.conditions[h] = <<>>, !.meta[h].matchedIndex = -1]),
         h, <<>>, Api)

(* Faulty variant, for sensitivity of the properties: the refs are shared, so reset empties every handle *)
reset_allHandles(s, h) ==
  Return(Collect([s EXCEPT !.conditions = [g \in DOMAIN s.conditions |-> <<>>],
                           !.meta = [g \in DOMAIN s.meta |-> InitMeta]]),
         h, <<>>, Api)

(* Faulty variant, for sensitivity of the properties: reset starts the id numbers again *)
reset_restartsIds(s, h) ==
  Return(Collect([s EXCEPT !.conditions[h] = <<>>, !.meta[h] = InitMeta,
                           !.conditionIdCounter = 0]),
         h, <<>>, Api)

(* ---- reset ---- *)
reset(s, h) ==
  Return(Collect([s EXCEPT !.conditions[h] = <<>>, !.meta[h] = InitMeta]), h, <<>>, Api)

(* ---- introspection ---- *)
getMatchedIndex(h) == meta[h].matchedIndex

hasMatched(h) == meta[h].matchedIndex # -1

(* Object.freeze([...conditions.current]): a new array of the same records *)
getConditions(s, h) ==
  Return(Collect([s EXCEPT !.snapshot = [taken |-> TRUE, owner |-> h,
                                         refs |-> s.conditions[h]]]),
         h, <<>>, JS("array", 0))

(* ---- otherwise ---- *)
(* Faulty variant, for sensitivity of the properties: the filter does not look at the kind of the record *)
incompleteConditions_anyKind(s, h) ==
  {i \in 1..Len(s.conditions[h]) : R(s, h, i).component = Null}

(* the records of kind when/match whose component is null *)
incompleteConditions(s, h) ==
  {i \in 1..Len(s.conditions[h]) :
     R(s, h, i).type \in {"when", "match"} /\ R(s, h, i).component = Null}

(* Faulty variant, for sensitivity of the properties: a satisfied record without payload ends the scan *)
findFirstMatching_stopsAtIncomplete(s, h, i) ==
  LET T == {j \in i..Len(s.conditions[h]) :
              /\ R(s, h, j).type \in {"when", "match"}
              /\ ToBoolean(R(s, h, j).condition)}
      first == CHOOSE j \in T : \A k \in T : j <= k
  IN IF T = {} THEN 0
     ELSE IF R(s, h, first).component # Null THEN first ELSE 0

(* Faulty variant, for sensitivity of the properties: the loop keeps scanning, so the last record that passes the test wins *)
findFirstMatching_lastWins(s, h, i) ==
  LET P == {j \in i..Len(s.conditions[h]) :
              /\ R(s, h, j).type \in {"when", "match"}
              /\ ToBoolean(R(s, h, j).condition)
              /\ R(s, h, j).component # Null}
  IN IF P = {} THEN 0 ELSE CHOOSE j \in P : \A k \in P : k <= j

(* the for loop: the first position from i on that passes the test, 0 if none *)
RECURSIVE findFirstMatching(_, _, _)
findFirstMatching(s, h, i) ==
  IF i > Len(s.conditions[h]) THEN 0
  ELSE IF /\ R(s, h, i).type \in {"when", "match"}
          /\ ToBoolean(R(s, h, i).condition)
          /\ R(s, h, i).component # Null
       THEN i
       ELSE findFirstMatching(s, h, i + 1)

(* Faulty variant, for sensitivity of the properties: matchedIndex is not reset to -1 before the scan *)
matchedIndexAfter_stale(s, h) ==
  LET m == findFirstMatching(s, h, 1) IN IF m # 0 THEN m - 1 ELSE s.meta[h].matchedIndex

(* meta.matchedIndex after the call: reset to -1, then set by the loop *)
matchedIndexAfter(s, h) ==
  LET m == findFirstMatching(s, h, 1) IN IF m # 0 THEN m - 1 ELSE -1

(* Faulty variant, for sensitivity of the properties: the records are tried in order, the fallback record among them *)
resolve_inOrder(s, h, defaultComponent) ==
  LET d == IF defaultComponent = Undefined THEN Null ELSE defaultComponent
      P == {i \in 1..Len(s.conditions[h]) :
              /\ R(s, h, i).component # Null
              /\ \/ R(s, h, i).type = "fallback"
                 \/ ToBoolean(R(s, h, i).condition)}
  IN IF P = {} THEN d ELSE R(s, h, CHOOSE i \in P : \A j \in P : i <= j).component

(* the value returned; defaultComponent = Undefined is the omitted argument *)
resolve(s, h, defaultComponent) ==
  LET d == IF defaultComponent = Undefined THEN Null ELSE defaultComponent
      m == findFirstMatching(s, h, 1)
      f == findFallback(s, h)
  IN IF m # 0 THEN R(s, h, m).component
     ELSE IF f # 0 /\ R(s, h, f).component # Null THEN R(s, h, f).component
     ELSE d

(* Faulty variant, for sensitivity of the properties: otherwise ends the match context *)
otherwise_closesContext(s, h, defaultComponent) ==
  Return([s EXCEPT !.meta[h].matchedIndex = matchedIndexAfter(s, h),
                   !.meta[h].isInMatchMode = FALSE],
         h,
         IF incompleteConditions(s, h) # {}
         THEN <<Diag("warn", "incomplete-conditions", "",
                     Cardinality(incompleteConditions(s, h)))>>
         ELSE <<>>,
         resolve(s, h, defaultComponent))

(* Faulty variant, for sensitivity of the properties: the selected record gives its payload away *)
otherwise_consumesBranch(s, h, defaultComponent) ==
  LET m == findFirstMatching(s, h, 1)
      t == IF m = 0 THEN s ELSE [s EXCEPT !.heap[s.conditions[h][m]].component = Null]
  IN Return([t EXCEPT !.meta[h].matchedIndex = matchedIndexAfter(s, h)], h,
            IF incompleteConditions(s, h) # {}
            THEN <<Diag("warn", "incomplete-conditions", "",
                        Cardinality(incompleteConditions(s, h)))>>
            ELSE <<>>,
            resolve(s, h, defaultComponent))

(* Faulty variant, for sensitivity of the properties: otherwise empties the sequence once it has resolved it *)
otherwise_clears(s, h, defaultComponent) ==
  Return(Collect([s EXCEPT !.meta[h].matchedIndex = matchedIndexAfter(s, h),
                           !.conditions[h] = <<>>]),
         h,
         IF incompleteConditions(s, h) # {}
         THEN <<Diag("warn", "incomplete-conditions", "",
                     Cardinality(incompleteConditions(s, h)))>>
         ELSE <<>>,
         resolve(s, h, defaultComponent))

otherwise(s, h, defaultComponent) ==
  Return([s EXCEPT !.meta[h].matchedIndex = matchedIndexAfter(s, h)], h,
         IF incompleteConditions(s, h) # {}
         THEN <<Diag("warn", "incomplete-conditions", "",
                     Cardinality(incompleteConditions(s, h)))>>
         ELSE <<>>,
         resolve(s, h, defaultComponent))

(* ---- the caller's writes through a snapshot ---- *)
(* snapshot[i].component = v: the array is frozen, its records are not *)
callerWritesComponent(s, i, v) == [s EXCEPT !.heap[s.snapshot.refs[i]].component = v]

(* snapshot[i].condition = v *)
callerWritesCondition(s, i, v) == [s EXCEPT !.heap[s.snapshot.refs[i]].condition = v]

(* snapshot[i] = x, snapshot.push(x), snapshot.length = 0: rejected by the freeze *)
callerWritesArray(s) == s

(* ---- the operations as actions ---- *)
(* the calls since the last reset that the history counts: when(), case() made
   with a match context open, and whether fallback() was called *)
Counted(c, name) ==
  CASE name = "when" -> [c EXCEPT !.when = @ + 1]
    [] name = "case" -> [c EXCEPT !.case = @ + 1]
    [] name = "fallback" -> [c EXCEPT !.fallback = TRUE]
    [] name = "reset" -> NoCount
    [] OTHER -> c

(* the names of the calls made since the match() call that is in force, kept in
   mode "context" *)
Since(tr, name) ==
  IF tr.mode # "context" \/ name \in {"reset", "match"} \/ tr.lastMatch = <<>>
  THEN {}
  ELSE tr.since \cup {name}

(* a free call on a handle: while no scripted scenario has begun (pc = 0); the
   history records the name of the call when the mode asks for it *)
Track(name) ==
  /\ trace.pc = 0
  /\ trace' = IF trace.mode \in {"last", "passes", "context"}
              THEN [trace EXCEPT !.last = name, !.count = Counted(@, name),
                                 !.lastMatch = IF name = "reset" THEN <<>> ELSE @,
                                 !.written = IF name = "reset" THEN -1 ELSE @,
                                 !.passes = IF name = "reset" THEN 0 ELSE @,
                                 !.args = IF name = "reset" THEN <<>> ELSE @,
                                 !.since = Since(trace, name)]
              ELSE trace

(* otherwise(): the history also keeps the matchedIndex the call writes, the
   position of the record whose payload it returns or -1 *)
TrackOtherwise(h) ==
  /\ trace.pc = 0
  /\ trace' = IF trace.mode = "last"
              THEN [trace EXCEPT !.last = "otherwise",
                                 !.written = findFirstMatching(Cur, h, 1) - 1]
              ELSE IF trace.mode = "context"
              THEN [trace EXCEPT !.last = "otherwise",
                                 !.written = findFirstMatching(Cur, h, 1) - 1,
                                 !.since = Since(trace, "otherwise")]
              ELSE IF trace.mode = "passes"
              THEN [trace EXCEPT !.last = "otherwise",
                                 !.written = findFirstMatching(Cur, h, 1) - 1,
                                 !.passes = IF @ < MaxPasses THEN @ + 1 ELSE @,
                                 !.args = <<IF @ = <<>> THEN 0 ELSE @[2],
                                            Len(conditions[h])>>]
              ELSE trace

(* match(value, comparator): the history also keeps the arguments of the call *)
TrackMatch(value, comparator) ==
  /\ trace.pc = 0
  /\ trace' = IF trace.mode \in {"last", "passes", "context"}
              THEN [trace EXCEPT !.last = "match", !.lastMatch = <<value, comparator>>,
                                 !.since = {}]
              ELSE trace

When(h, c) == Step(when(Cur, h, c)) /\ Track("when")
Then(h, p) == Step(then(Cur, h, p)) /\ Track("then")
Match(h, v, c) == Step(match(Cur, h, v, c)) /\ TrackMatch(v, c)
Case(h, v) ==
  Step(case(Cur, h, v)) /\ Track(IF meta[h].isInMatchMode THEN "case" ELSE "case-without-match")
Render(h, p) == Step(render(Cur, h, p)) /\ Track("render")
Fallback(h, p) == Step(fallback(Cur, h, p)) /\ Track("fallback")
Debug(h) == Step(debug(Cur, h)) /\ Track("debug")
Reset(h) == Step(reset(Cur, h)) /\ Track("reset")
Otherwise(h, d) == Step(otherwise(Cur, h, d)) /\ TrackOtherwise(h)
GetConditions(h) == Step(getConditions(Cur, h)) /\ Track("getConditions")
CallerWritesComponent(i, v) ==
  i \in 1..Len(snapshot.refs) /\ Step(callerWritesComponent(Cur, i, v)) /\ UNCHANGED trace
CallerWritesCondition(i, v) ==
  i \in 1..Len(snapshot.refs) /\ Step(callerWritesCondition(Cur, i, v)) /\ UNCHANGED trace
CallerWritesArray == snapshot.taken /\ Step(callerWritesArray(Cur)) /\ UNCHANGED trace

(* ---- inputs ---- *)
Conditions == {JSTrue, JSFalse, Str(1)}
Payloads == {Null, Elem(1), Elem(2)}
Defaults == {Undefined, Elem(3)}
Subjects == {Num(1), NaN}
(* match(value, comparator) calls: comparator omitted, a function, or not callable *)
MatchArgs ==
  {<<Num(1), Undefined>>, <<NaN, Undefined>>, <<NaN, Fn(CmpStrict)>>,
   <<Num(1), Fn(CmpThrowing)>>, <<Num(1), Str(1)>>}

Next ==
  \E h \in {1} :
    \/ \E c \in Conditions : When(h, c)
    \/ \E p \in Payloads : Then(h, p)
    \/ \E a \in MatchArgs : Match(h, a[1], a[2])
    \/ \E v \in Subjects : Case(h, v)
    \/ \E p \in Payloads : Render(h, p)
    \/ \E p \in Payloads : Fallback(h, p)
    \/ Debug(h)
    \/ Reset(h)
    \/ \E d \in Defaults : Otherwise(h, d)

Spec == Init /\ [][Next]_vars

(* ---- a caller that keeps a snapshot and writes through it ---- *)
NextSnap ==
  \/ \E h \in {1} :
       \/ \E c \in {JSTrue, JSFalse} : When(h, c)
       \/ \E p \in Payloads : Then(h, p)
       \/ \E p \in {Elem(1)} : Fallback(h, p)
       \/ Reset(h)
       \/ \E d \in Defaults : Otherwise(h, d)
       \/ GetConditions(h)
  \/ \E i \in 1..MaxLen :
       \/ \E v \in Payloads : CallerWritesComponent(i, v)
       \/ \E v \in {JSTrue, JSFalse} : CallerWritesCondition(i, v)
  \/ CallerWritesArray

SpecSnap == Init /\ [][NextSnap]_vars

(* ---- the name of the last call kept as history ---- *)
InitLast == InitFor({1}) /\ trace = [NoTrace EXCEPT !.mode = "last"]

SpecLast == InitLast /\ [][Next]_vars

(* ---- reset against a fresh handle ---- *)
(* Handle 1 runs any calls and is reset; then handle 1 and the untouched handle 2
   receive the same calls, one after the other. *)
InitReset == InitFor({1, 2}) /\ trace = [NoTrace EXCEPT !.mode = "reset"]

Compared == trace' = [trace EXCEPT !.pc = 2]

ResetAndCompare == trace.pc = 0 /\ Step(reset(Cur, 1)) /\ trace' = [trace EXCEPT !.pc = 1]
BothWhen(c) == trace.pc >= 1 /\ Step(when(when(Cur, 1, c), 2, c)) /\ Compared
BothThen(p) == trace.pc >= 1 /\ Step(then(then(Cur, 1, p), 2, p)) /\ Compared
BothMatch(v, c) == trace.pc >= 1 /\ Step(match(match(Cur, 1, v, c), 2, v, c)) /\ Compared
BothCase(v) == trace.pc >= 1 /\ Step(case(case(Cur, 1, v), 2, v)) /\ Compared
BothRender(p) == trace.pc >= 1 /\ Step(render(render(Cur, 1, p), 2, p)) /\ Compared
BothFallback(p) == trace.pc >= 1 /\ Step(fallback(fallback(Cur, 1, p), 2, p)) /\ Compared
BothDebug == trace.pc >= 1 /\ Step(debug(debug(Cur, 1), 2)) /\ Compared
BothOtherwise(d) == trace.pc >= 1 /\ Step(otherwise(otherwise(Cur, 1, d), 2, d)) /\ Compared

NextReset ==
  \/ Next
  \/ ResetAndCompare
  \/ \E c \in Conditions : BothWhen(c)
  \/ \E p \in Payloads : BothThen(p)
  \/ \E a \in MatchArgs : BothMatch(a[1], a[2])
  \/ \E v \in Subjects : BothCase(v)
  \/ \E p \in Payloads : BothRender(p)
  \/ \E p \in Payloads : BothFallback(p)
  \/ BothDebug
  \/ \E d \in Defaults : BothOtherwise(d)

SpecReset == InitReset /\ [][NextReset]_vars

(* ---- when() on values of every type ---- *)
WhenArgs ==
  {JSTrue, JSFalse, Num(0), Num(1), Str(0), Str(1), NaN, Null, Undefined, Elem(1)}

NextWhen ==
  \E h \in {1} :
    \/ \E x \in WhenArgs : When(h, x)
    \/ \E p \in {Elem(1)} : Then(h, p)
    \/ Reset(h)
    \/ \E d \in {Undefined} : Otherwise(h, d)

SpecWhen == InitLast /\ [][NextWhen]_vars

(* ---- match() and case() on values of several types ---- *)
MatchValues == {Num(1), NaN, Null, Undefined}

(* the comparator argument: omitted, not callable (a string, null), a function *)
ComparatorArgs == {Undefined, Str(1), Null, Fn(CmpStrict)}

NextMatch ==
  \E h \in {1} :
    \/ \E v \in MatchValues, c \in ComparatorArgs : Match(h, v, c)
    \/ \E v \in MatchValues : Case(h, v)
    \/ \E p \in {Elem(1)} : Render(h, p)
    \/ Reset(h)
    \/ \E d \in {Undefined} : Otherwise(h, d)

SpecMatch == InitLast /\ [][NextMatch]_vars

(* ---- comparators.range on integers ---- *)
Numbers == (0 - MaxNum)..MaxNum

InitRange ==
  /\ InitFor({1})
  /\ \E value \in Numbers, min \in Numbers, max \in Numbers :
       trace = [NoTrace EXCEPT !.mode = "range", !.args = <<value, min, max>>]

ApplyRange ==
  /\ trace.mode = "range"
  /\ trace.pc = 0
  /\ trace' = [trace EXCEPT !.pc = 1,
                            !.out = IF comparators_range(trace.args[1], trace.args[2],
                                                         trace.args[3])
                                    THEN JSTrue ELSE JSFalse]
  /\ UNCHANGED prog

NextRange == ApplyRange

SpecRange == InitRange /\ [][NextRange]_vars

(* ---- several build-and-resolve passes on one handle, payloads never null ---- *)
(* the history counts the otherwise() calls since the last reset (passes) and
   keeps the length of the sequence at the last two of them (args) *)
InitPasses == InitFor({1}) /\ trace = [NoTrace EXCEPT !.mode = "passes"]

NextPasses ==
  \E h \in {1} :
    \/ \E c \in {JSTrue, JSFalse} : When(h, c)
    \/ \E p \in {Elem(1), Elem(2)} : Then(h, p)
    \/ \E a \in {<<Num(1), Undefined>>} : Match(h, a[1], a[2])
    \/ \E v \in Subjects : Case(h, v)
    \/ \E p \in {Elem(1), Elem(2)} : Render(h, p)
    \/ \E p \in {Elem(1), Elem(2)} : Fallback(h, p)
    \/ Reset(h)
    \/ \E d \in Defaults : Otherwise(h, d)

SpecPasses == InitPasses /\ [][NextPasses]_vars

(* ---- the calls made while a match context is open ---- *)
InitContext == InitFor({1}) /\ trace = [NoTrace EXCEPT !.mode = "context"]

ContextArgs == {<<Num(1), Fn(CmpStrict)>>, <<NaN, Undefined>>}

NextContext ==
  \E h \in {1} :
    \/ \E c \in {JSTrue} : When(h, c)
    \/ \E p \in {Elem(1)} : Then(h, p)
    \/ \E a \in ContextArgs : Match(h, a[1], a[2])
    \/ \E v \in Subjects : Case(h, v)
    \/ \E p \in {Elem(2)} : Render(h, p)
    \/ \E p \in {Elem(1)} : Fallback(h, p)
    \/ Debug(h)
    \/ Reset(h)
    \/ \E d \in {Undefined} : Otherwise(h, d)

SpecContext == InitContext /\ [][NextContext]_vars

(* ---- the grading chain: match(score, (a, b) => a >= b), then case(t).render(P_t)
   for descending thresholds t, an optional fallback, and otherwise ---- *)
(* the history keeps the score and the thresholds (args), whether fallback was
   called (count.fallback) and the argument of otherwise (out) *)
GradePayload(t) == Elem(t)
GradeFallbackPayload == Str(1)

InitGrade ==
  /\ InitFor({1})
  /\ \E score \in Numbers : trace = [NoTrace EXCEPT !.mode = "grade", !.args = <<score>>]

GradeMatch ==
  /\ trace.mode = "grade"
  /\ trace.pc = 0
  /\ Step(match(Cur, 1, Num(trace.args[1]), Fn(CmpGte)))
  /\ trace' = [trace EXCEPT !.pc = 1]

GradeCase(t) ==
  /\ trace.pc = 1
  /\ Len(trace.args) > 1 => t < trace.args[Len(trace.args)]
  /\ Step(case(Cur, 1, Num(t)))
  /\ trace' = [trace EXCEPT !.pc = 2, !.args = Append(@, t)]

GradeRender ==
  /\ trace.pc = 2
  /\ Step(render(Cur, 1, GradePayload(trace.args[Len(trace.args)])))
  /\ trace' = [trace EXCEPT !.pc = 1]

GradeFallback ==
  /\ trace.pc = 1
  /\ Step(fallback(Cur, 1, GradeFallbackPayload))
  /\ trace' = [trace EXCEPT !.pc = 3, !.count.fallback = TRUE]

GradeOtherwise(d) ==
  /\ trace.pc \in {1, 3}
  /\ Step(otherwise(Cur, 1, d))
  /\ trace' = [trace EXCEPT !.pc = 4, !.out = d]

NextGrade ==
  \/ GradeMatch
  \/ \E t \in Numbers : GradeCase(t)
  \/ GradeRender
  \/ GradeFallback
  \/ \E d \in Defaults : GradeOtherwise(d)

SpecGrade == InitGrade /\ [][NextGrade]_vars

(* ---- two handles, their calls interleaved ---- *)
InitTwo == InitFor({1, 2}) /\ trace = [NoTrace EXCEPT !.mode = "two"]

NextTwo ==
  \E h \in {1, 2} :
    \/ \E c \in {JSTrue, JSFalse} : When(h, c)
    \/ \E p \in {Elem(1)} : Then(h, p)
    \/ \E a \in {<<Num(1), Undefined>>} : Match(h, a[1], a[2])
    \/ \E v \in {Num(1)} : Case(h, v)
    \/ \E p \in {Elem(2)} : Render(h, p)
    \/ Reset(h)
    \/ \E d \in {Undefined} : Otherwise(h, d)

SpecTwo == InitTwo /\ [][NextTwo]_vars

(* ---- two handles: the calls that append, and reset ---- *)
NextIds ==
  \E h \in {1, 2} :
    \/ \E c \in {JSTrue} : When(h, c)
    \/ \E a \in {<<Num(1), Undefined>>} : Match(h, a[1], a[2])
    \/ \E v \in {Num(1)} : Case(h, v)
    \/ \E p \in {Elem(1)} : Fallback(h, p)
    \/ Reset(h)

SpecIds == InitTwo /\ [][NextIds]_vars

(* ---- a chain nested in the payload of render ---- *)
(* After any calls, case(a) on an open match context; then the argument of the
   render that follows is computed by reset().when(f).then(B).otherwise(U) on the
   same handle; then render, a further case/render and the final otherwise. *)
InitNested == InitFor({1}) /\ trace = [NoTrace EXCEPT !.mode = "nested"]

At(pc) == trace.pc = pc /\ trace' = [trace EXCEPT !.pc = pc + 1]

OuterCase(a) ==
  /\ trace.pc = 0
  /\ meta[1].isInMatchMode
  /\ Step(case(Cur, 1, a))
  /\ trace' = [trace EXCEPT !.pc = 1,
                            !.outer = [recs |-> [i \in 1..Len(conditions'[1]) |->
                                                   heap'[conditions'[1][i]]],
                                       meta |-> meta[1]]]
InnerReset == At(1) /\ Step(reset(Cur, 1))
InnerWhen(f) == At(2) /\ Step(when(Cur, 1, f))
InnerThen(p) == At(3) /\ Step(then(Cur, 1, p))
InnerOtherwise(d) == At(4) /\ Step(otherwise(Cur, 1, d))
OuterRender ==
  /\ trace.pc = 5
  /\ Step(render(Cur, 1, result[1]))
  /\ trace' = [trace EXCEPT !.pc = 6, !.inner = result[1]]
LaterCase(b) == At(6) /\ Step(case(Cur, 1, b))
LaterRender(p) == At(7) /\ Step(render(Cur, 1, p))
FinalOtherwise(d) == At(8) /\ Step(otherwise(Cur, 1, d))

NextNested ==
  \/ Next
  \/ \E a \in Subjects : OuterCase(a)
  \/ InnerReset
  \/ \E f \in Conditions : InnerWhen(f)
  \/ \E p \in Payloads : InnerThen(p)
  \/ \E d \in Defaults : InnerOtherwise(d)
  \/ OuterRender
  \/ \E b \in Subjects : LaterCase(b)
  \/ \E p \in Payloads : LaterRender(p)
  \/ \E d \in Defaults : FinalOtherwise(d)

SpecNested == InitNested /\ [][NextNested]_vars

(* ---- vocabulary of the properties ---- *)
(* the last call on h was otherwise: builders return the handle *)
AfterOtherwise(h) == result[h].k \notin {"api", "undefined", "array"}

(* the positions of the when/match records that are true and carry a payload *)
Selectable(h) ==
  {i \in 1..Len(conditions[h]) :
     /\ Rec(h, i).type \in {"when", "match"}
     /\ Rec(h, i).condition = JSTrue
     /\ Rec(h, i).component # Null}

FallbackPositions(h) == {i \in 1..Len(conditions[h]) : Rec(h, i).type = "fallback"}

Min(S) == CHOOSE i \in S : \A j \in S : i <= j

(* what otherwise(d) is to return: first selectable, else fallback, else d or null *)
Expected(h, d) ==
  IF Selectable(h) # {} THEN Rec(h, Min(Selectable(h))).component
  ELSE IF \E i \in FallbackPositions(h) : Rec(h, i).component # Null
  THEN Rec(h, CHOOSE i \in FallbackPositions(h) : Rec(h, i).component # Null).component
  ELSE IF d = Undefined THEN Null ELSE d

(* C1: otherwise(d) returns the payload of the lowest-position when/match record
   that is true and has its payload set (not null); else the payload of a
   fallback record with a set payload; else d, null when d is omitted. *)
C1_FirstMatchWins ==
  [][\A h \in Handles : \A d \in Defaults :
       (result'[h] # Api /\ Otherwise(h, d)) => result'[h] = Expected(h, d)]_vars

(* a chain of two records resolved to its second record *)
C1_Witness ==
  \E h \in Handles :
    /\ AfterOtherwise(h)
    /\ Len(conditions[h]) = 2
    /\ Rec(h, 1).type \in {"when", "match"}
    /\ getMatchedIndex(h) = 1
    /\ result[h] = Rec(h, 2).component

(* C2: right after otherwise, getMatchedIndex is the position of the selected
   when/match record, whose payload was returned, and -1 when the fallback
   payload or the default was returned; hasMatched iff getMatchedIndex # -1. *)
C2_MatchedIndex ==
  \A h \in Handles :
    AfterOtherwise(h) =>
      /\ hasMatched(h) <=> getMatchedIndex(h) # -1
      /\ IF Selectable(h) = {}
         THEN getMatchedIndex(h) = -1
         ELSE /\ getMatchedIndex(h) + 1 = Min(Selectable(h))
              /\ result[h] = Rec(h, getMatchedIndex(h) + 1).component

(* otherwise returned the fallback payload and left matchedIndex at -1 *)
C2_Witness ==
  \E h \in Handles :
    /\ AfterOtherwise(h)
    /\ ~hasMatched(h)
    /\ \E i \in FallbackPositions(h) : result[h] = Rec(h, i).component
    /\ \E i \in 1..Len(conditions[h]) : Rec(h, i).type = "when" /\ Rec(h, i).component # Null

(* the records of handle h, by value *)
Records(h) == [i \in 1..Len(conditions[h]) |-> Rec(h, i)]

(* C3: a payload supplied through then, render or fallback counts as set whatever
   its value, null included: the record is not incomplete, a true branch with no
   selectable branch before it is selected (matchedIndex its position) and
   returns the payload, and a fallback payload is returned in preference to the
   default. *)
C3_NullPayloadIsSet ==
  [][\A h \in Handles : \A p \in Payloads :
       LET n == Len(conditions[h]) IN
       /\ (n > 0 /\ meta' = meta /\ conditions' = conditions
             /\ ( \/ Rec(h, n).type = "when" /\ Then(h, p)
                  \/ Rec(h, n).type = "match" /\ Render(h, p))) =>
            /\ n \notin incompleteConditions(Cur, h)'
            /\ (Rec(h, n).condition = JSTrue /\ Selectable(h) \subseteq {n}) =>
                 /\ resolve(Cur, h, Elem(3))' = p
                 /\ matchedIndexAfter(Cur, h)' = n - 1
       /\ (Selectable(h) = {} /\ meta' = meta /\ Fallback(h, p)) =>
            resolve(Cur, h, Elem(3))' = p]_vars

(* C4: whatever the caller does to the array returned by getConditions or to the
   records in it, the records of the handle and what otherwise returns stay as
   they were. *)
C4_SnapshotCannotMutate ==
  [][\A h \in Handles :
       ( \/ \E i \in 1..MaxLen, v \in Payloads : CallerWritesComponent(i, v)
         \/ \E i \in 1..MaxLen, v \in {JSTrue, JSFalse} : CallerWritesCondition(i, v)
         \/ CallerWritesArray ) =>
         /\ Records(h)' = Records(h)
         /\ \A d \in Defaults : resolve(Cur, h, d)' = resolve(Cur, h, d)]_vars

(* what the claims compare of a handle: kinds, conditions and payloads *)
View(h) ==
  [i \in 1..Len(conditions[h]) |->
     [type |-> Rec(h, i).type, condition |-> Rec(h, i).condition,
      component |-> Rec(h, i).component]]

(* C5: after reset a handle behaves like a new one: right after reset the
   sequence is empty, matchedIndex is -1, the match context is closed and the
   comparator is the default; and under the same calls the reset handle and a
   new handle give the same otherwise results, getMatchedIndex, hasMatched and
   the same kinds, conditions and payloads in getConditions. *)
C5_ResetIsFresh ==
  (trace.mode = "reset" /\ trace.pc >= 1) =>
    /\ trace.pc = 1 => conditions[1] = <<>> /\ meta[1] = InitMeta
    /\ trace.pc = 2 => result[1] = result[2]
    /\ getMatchedIndex(1) = getMatchedIndex(2)
    /\ hasMatched(1) <=> hasMatched(2)
    /\ View(1) = View(2)

(* a handle that held a record was reset, and then resolved a new chain to a
   branch, as the new handle did *)
C5_Witness ==
  /\ trace.mode = "reset"
  /\ trace.pc = 2
  /\ conditionIdCounter = 3
  /\ AfterOtherwise(1)
  /\ hasMatched(1)
  /\ Len(conditions[2]) = 1

(* the first position of recs that is true and carries a payload, 0 if none *)
FirstSelectableOf(recs) ==
  LET P == {i \in 1..Len(recs) :
              /\ recs[i].type \in {"when", "match"}
              /\ recs[i].condition = JSTrue
              /\ recs[i].component # Null}
  IN IF P = {} THEN 0 ELSE Min(P)

(* C6: a chain nested in the argument of render leaves the outer chain as it
   was: its records and its open match context are kept, the render attaches
   the inner result to the case record, a later case still adds a record, and
   the final otherwise returns the payload of the first satisfied outer branch. *)
C6_NestedKeepsOuter ==
  trace.mode = "nested" =>
    LET n == Len(trace.outer.recs) IN
    /\ trace.pc >= 5 =>
         /\ Len(conditions[1]) >= n
         /\ \A i \in 1..n : Rec(1, i).id = trace.outer.recs[i].id
         /\ \A i \in 1..(n - 1) : Rec(1, i) = trace.outer.recs[i]
         /\ meta[1].isInMatchMode
         /\ meta[1].value = trace.outer.meta.value
         /\ meta[1].comparator = trace.outer.meta.comparator
    /\ trace.pc >= 6 => Rec(1, n).component = trace.inner
    /\ trace.pc >= 7 => Len(conditions[1]) = n + 1 /\ Rec(1, n + 1).type = "match"
    /\ (trace.pc = 9 /\ FirstSelectableOf(trace.outer.recs) # 0) =>
         result[1] = trace.outer.recs[FirstSelectableOf(trace.outer.recs)].component

(* C7: match(value) directly followed by otherwise() logs a warning, in one call
   or the other. *)
C7_MatchWithoutCaseWarns ==
  [][\A h \in Handles :
       (trace.last = "match" /\ trace'.last = "otherwise") =>
         \E i \in 1..Len(diag[h] \o diag'[h]) : (diag[h] \o diag'[h])[i].sev = "warn"]_vars

(* C8: a sequence never holds more than one fallback record. *)
C8_OneFallback ==
  \A h \in Handles : Cardinality(FallbackPositions(h)) <= 1

(* a second fallback call was made on a chain whose fallback is not the last record *)
C8_Witness ==
  \E h \in Handles :
    /\ diag[h] = <<Warn("multiple-fallback")>>
    /\ FallbackPositions(h) = {1}
    /\ Len(conditions[h]) = 2

(* C9: fallback(B) on a chain that has a fallback record logs exactly one
   warning, writes B into that record and changes nothing else; so a chain
   with no selectable branch then resolves to B. *)
C9_FallbackOverwrite ==
  [][\A h \in Handles : \A p \in Payloads :
       (FallbackPositions(h) # {} /\ meta' = meta /\ Fallback(h, p)) =>
         LET f == Min(FallbackPositions(h)) IN
         /\ diag'[h] = <<Warn("multiple-fallback")>>
         /\ conditions' = conditions
         /\ heap' = [heap EXCEPT ![conditions[h][f]].component = p]
         /\ UNCHANGED <<meta, conditionIdCounter, snapshot>>
         /\ (Selectable(h) = {} /\ p # Null) => resolve(Cur, h, Undefined)' = p]_vars

(* a fallback payload was replaced by a different one, with another record present *)
C9_Witness ==
  \E h \in Handles :
    /\ diag[h] = <<Warn("multiple-fallback")>>
    /\ Len(conditions[h]) = 2
    /\ \E i \in FallbackPositions(h) : Rec(h, i).component = Elem(2)

(* C10: an accepted then(X) writes X into the last when record; it logs exactly
   one 'multiple then' warning when that record's payload was set (not null) and
   nothing when it was not.  render does the same on the last match record. *)
C10_ThenOverwrites ==
  [][\A h \in Handles : \A p \in Payloads :
       LET n == Len(conditions[h]) IN
       /\ (n > 0 /\ meta' = meta /\ Rec(h, n).type = "when" /\ Then(h, p)) =>
            /\ conditions' = conditions
            /\ heap' = [heap EXCEPT ![conditions[h][n]].component = p]
            /\ diag'[h] = IF Rec(h, n).component # Null
                          THEN <<Warn("multiple-then")>> ELSE <<>>
       /\ (n > 0 /\ meta' = meta /\ Rec(h, n).type = "match" /\ Render(h, p)) =>
            /\ conditions' = conditions
            /\ heap' = [heap EXCEPT ![conditions[h][n]].component = p]
            /\ diag'[h] = IF Rec(h, n).component # Null
                          THEN <<Warn("multiple-render")>> ELSE <<>>]_vars

(* a second then replaced the payload of a when record *)
C10_Witness ==
  \E h \in Handles :
    /\ diag[h] = <<Warn("multiple-then")>>
    /\ Len(conditions[h]) = 1
    /\ Rec(h, 1).type = "when"
    /\ Rec(h, 1).component = Elem(2)

(* the call on h was refused: one warning, and the chain state as it was *)
Refused(h) ==
  /\ Len(diag'[h]) = 1
  /\ diag'[h][1].sev = "warn"
  /\ result'[h] = Api
  /\ UNCHANGED <<conditions, heap, meta, conditionIdCounter>>

(* C11: then() on an empty sequence or after a record that is not of kind when,
   and render() on an empty sequence or after a record that is not of kind
   match, log one warning and leave the sequence, every record, the match
   context and matchedIndex unchanged. *)
C11_RejectedAttachIsNoOp ==
  [][\A h \in Handles : \A p \in Payloads :
       LET n == Len(conditions[h]) IN
       /\ ((n = 0 \/ Rec(h, n).type # "when") /\ Then(h, p)) => Refused(h)
       /\ ((n = 0 \/ Rec(h, n).type # "match") /\ Render(h, p)) => Refused(h)]_vars

(* then() was refused after a match record that carries a payload *)
C11_Witness ==
  \E h \in Handles :
    /\ diag[h] = <<Diag("warn", "then-should-follow-when", "match", 0)>>
    /\ Len(conditions[h]) = 2
    /\ Rec(h, 2).component = Elem(1)

(* C12: case(v) with no match context open appends no record, allocates no id,
   logs a warning and leaves the chain state unchanged; a render() that follows
   is refused and writes nothing; and otherwise(d) on a chain where no record
   carries a payload returns d, null when d is omitted. *)
C12_CaseWithoutMatch ==
  [][\A h \in Handles : \A v \in Subjects :
       (~meta[h].isInMatchMode /\ Case(h, v)) =>
         /\ diag'[h] = <<Warn("case-without-match")>>
         /\ result'[h] = Api
         /\ UNCHANGED <<conditions, heap, meta, conditionIdCounter>>
         /\ \A p \in Payloads :
              /\ (validateChaining(Cur, h, "case", "render"))' # <<>>
              /\ (render(Cur, h, p).heap)' = heap'
              /\ (render(Cur, h, p).conditions)' = conditions'
         /\ (\A i \in 1..Len(conditions[h]) : Rec(h, i).component = Null) =>
              \A d \in Defaults :
                (resolve(Cur, h, d))' = IF d = Undefined THEN Null ELSE d]_vars

(* case() was refused on a handle that was reset and has held a when record
   since, with no match() after the reset *)
C12_Witness ==
  \E h \in Handles :
    /\ diag[h] = <<Warn("case-without-match")>>
    /\ ~meta[h].isInMatchMode
    /\ Len(conditions[h]) = 1
    /\ conditionIdCounter >= 2

(* C13: case(v) whose comparator throws still appends one match record, with
   condition false and no payload, logs one error and returns the handle; the
   match context stays as it was, and the new record is not the one otherwise
   selects, with or without a payload rendered on it. *)
C13_ThrowingComparator ==
  [][\A h \in Handles : \A v \in Subjects :
       (meta[h].isInMatchMode /\ meta[h].comparator = Fn(CmpThrowing) /\ Case(h, v)) =>
         LET n == Len(conditions[h]) IN
         /\ conditionIdCounter' = conditionIdCounter + 1
         /\ conditions'[h] = Append(conditions[h], conditionIdCounter')
         /\ \A a \in DOMAIN heap : heap'[a] = heap[a]
         /\ heap'[conditionIdCounter'] =
              [type |-> "match", condition |-> JSFalse, matchValue |-> v,
               component |-> Null, id |-> <<"case", conditionIdCounter'>>]
         /\ diag'[h] = <<Error("comparator-threw")>>
         /\ result'[h] = Api
         /\ meta' = meta
         /\ (findFirstMatching(Cur, h, 1))' # n + 1
         /\ \A p \in Payloads : (findFirstMatching(render(Cur, h, p), h, 1))' # n + 1]_vars

(* a comparator threw in case() on a chain that holds a selectable when record *)
C13_Witness ==
  \E h \in Handles :
    /\ diag[h] = <<Error("comparator-threw")>>
    /\ meta[h].comparator = Fn(CmpThrowing)
    /\ Len(conditions[h]) = 2
    /\ Selectable(h) = {1}
    /\ Rec(h, 2).type = "match"
    /\ Rec(h, 2).condition = JSFalse

(* the names the history gives to the calls that return the handle *)
BuilderNames ==
  {"when", "then", "match", "case", "case-without-match", "render", "fallback",
   "debug", "reset"}

(* C14: no call ends in an exception: whatever the arguments and the state,
   every builder call returns the handle and otherwise returns a payload, and
   in the state any call leaves, an attacher, a case and otherwise called next
   return in the same way. *)
C14_NoThrow ==
  \A h \in Handles :
    /\ result[h].k # "throw"
    /\ trace.last \in BuilderNames => result[h] = Api
    /\ trace.last = "otherwise" => result[h].k \in {"null", "elem"}
    /\ then(Cur, h, Elem(1)).result[h] = Api
    /\ render(Cur, h, Elem(1)).result[h] = Api
    /\ \A v \in Subjects : case(Cur, h, v).result[h] = Api
    /\ \A d \in Defaults : otherwise(Cur, h, d).result[h].k \in {"null", "elem"}

(* case() ran a throwing comparator and returned the handle *)
C14_Witness ==
  \E h \in Handles :
    /\ trace.last = "case"
    /\ diag[h] = <<Error("comparator-threw")>>
    /\ result[h] = Api
    /\ Len(conditions[h]) = 1

(* the comparator a match(value, comparator) call puts in force *)
InForce(comparator) ==
  IF comparator.k = "fn" THEN comparator ELSE Fn(CmpDefault)

(* C15: the latest match() defines the one match context of a handle: match()
   opens the context and logs the 'multiple match' warning exactly when a
   context was open already, and every case(v) made with a context open is
   evaluated with the subject and the comparator of the latest match() call
   before it. *)
C15_LatestMatchDefinesContext ==
  [][\A h \in Handles :
       /\ (trace'.last = "match" /\ \E a \in MatchArgs : Match(h, a[1], a[2])) =>
            /\ meta'[h].isInMatchMode
            /\ meta[h].isInMatchMode <=>
                 \E i \in 1..Len(diag'[h]) : diag'[h][i] = Warn("multiple-match")
       /\ \A v \in Subjects :
            (trace'.last = "case" /\ Case(h, v)) =>
              /\ trace.lastMatch # <<>>
              /\ LET outcome == Call(InForce(trace.lastMatch[2]), trace.lastMatch[1], v) IN
                 /\ heap'[conditionIdCounter'].condition =
                      IF outcome = "true" THEN JSTrue ELSE JSFalse
                 /\ diag'[h] = IF outcome = "throw"
                               THEN <<Error("comparator-threw")>> ELSE <<>>]_vars

(* two case(1) records of one chain, the first evaluated under match(1), the
   second under a later match(NaN, strict) *)
C15_Witness ==
  \E h \in Handles :
    /\ trace.last = "case"
    /\ trace.lastMatch = <<NaN, Fn(CmpStrict)>>
    /\ Len(conditions[h]) = 2
    /\ Rec(h, 1).type = "match" /\ Rec(h, 1).matchValue = Num(1)
    /\ Rec(h, 1).condition = JSTrue
    /\ Rec(h, 2).type = "match" /\ Rec(h, 2).matchValue = Num(1)
    /\ Rec(h, 2).condition = JSFalse

(* C16: match(value, comparator) appends no record, allocates no id and changes
   no record and not matchedIndex: it sets the subject and the comparator of
   the match context and marks it open, and returns the handle. *)
C16_MatchOnlySetsContext ==
  [][\A h \in Handles : \A a \in MatchArgs :
       (trace'.last = "match" /\ Match(h, a[1], a[2])) =>
         /\ result'[h] = Api
         /\ UNCHANGED <<conditions, heap, conditionIdCounter, snapshot>>
         /\ meta' = [meta EXCEPT ![h] = [matchedIndex |-> meta[h].matchedIndex,
                                         value |-> a[1],
                                         comparator |-> InForce(a[2]),
                                         isInMatchMode |-> TRUE]]]_vars

(* a second match() on a chain of two records that was resolved to its first *)
C16_Witness ==
  \E h \in Handles :
    /\ trace.last = "match"
    /\ diag[h] = <<Warn("multiple-match")>>
    /\ Len(conditions[h]) = 2
    /\ getMatchedIndex(h) = 0
    /\ meta[h].value = NaN

(* C17: otherwise(d) changes nothing of the chain state but matchedIndex: the
   sequence, the records and the match context are as before the call; so the
   same call made again right away returns the same payload and leaves the
   same matchedIndex and the same chain state. *)
C17_OtherwiseOnlyWritesMatchedIndex ==
  [][\A h \in Handles : \A d \in Defaults :
       (trace'.last = "otherwise" /\ Otherwise(h, d)) =>
         /\ UNCHANGED <<conditions, heap, conditionIdCounter, snapshot>>
         /\ meta' = [meta EXCEPT ![h].matchedIndex = meta'[h].matchedIndex]
         /\ (otherwise(Cur, h, d).result)' = result'
         /\ (otherwise(Cur, h, d).diag)' = diag'
         /\ (otherwise(Cur, h, d).meta)' = meta'
         /\ (otherwise(Cur, h, d).conditions)' = conditions'
         /\ (otherwise(Cur, h, d).heap)' = heap']_vars

(* otherwise selected the second record of a chain whose match context is open
   and whose first record is incomplete *)
C17_Witness ==
  \E h \in Handles :
    /\ trace.last = "otherwise"
    /\ getMatchedIndex(h) = 1
    /\ meta[h].isInMatchMode
    /\ incompleteConditions(Cur, h) = {1}
    /\ result[h] = Elem(2)

(* C18: the length of the array getConditions returns is, counted since the last
   reset or since creation, the number of when() calls, plus the number of
   case() calls made with a match context open, plus one if fallback() was
   called at all; no other call adds to it. *)
C18_LengthCountsCalls ==
  \A h \in Handles :
    trace.mode = "last" =>
      Len(getConditions(Cur, h).snapshot.refs) =
        trace.count.when + trace.count.case + (IF trace.count.fallback THEN 1 ELSE 0)

(* after a reset of a chain that held a record: one counted case(), and
   fallback() called twice *)
C18_Witness ==
  \E h \in Handles :
    /\ trace.count = [when |-> 0, case |-> 1, fallback |-> TRUE]
    /\ diag[h] = <<Warn("multiple-fallback")>>
    /\ conditionIdCounter = 3
    /\ Len(conditions[h]) = 2

(* what is seen through the array getConditions returned: its length and the
   kind, condition and payload of each record *)
SnapshotView ==
  [i \in 1..Len(snapshot.refs) |->
     [type |-> heap[snapshot.refs[i]].type,
      condition |-> heap[snapshot.refs[i]].condition,
      component |-> heap[snapshot.refs[i]].component]]

(* C19: once getConditions has returned an array, no later call on the handle
   (when, then, fallback, reset, otherwise) changes the length of that array or
   the kind, condition or payload of a record seen through it. *)
C19_SnapshotImmutable ==
  [][\A h \in Handles :
       (/\ snapshot.taken
        /\ \/ \E c \in Conditions : When(h, c)
           \/ \E p \in Payloads : Then(h, p)
           \/ \E p \in Payloads : Fallback(h, p)
           \/ Reset(h)
           \/ \E d \in Defaults : Otherwise(h, d)) =>
         SnapshotView' = SnapshotView]_vars

(* the number of when/match records of h without a payload (null) *)
Incomplete(h) ==
  Cardinality({i \in 1..Len(conditions[h]) :
                 Rec(h, i).type # "fallback" /\ Rec(h, i).component = Null})

(* C20: otherwise logs the incomplete-conditions warning once, with the number
   of when/match records that have no payload (null), when that number is not
   zero, and logs nothing when it is zero; fallback records are not counted. *)
C20_IncompleteWarning ==
  [][\A h \in Handles : \A d \in Defaults :
       (trace'.last = "otherwise" /\ Otherwise(h, d)) =>
         diag'[h] = IF Incomplete(h) > 0
                    THEN <<Diag("warn", "incomplete-conditions", "", Incomplete(h))>>
                    ELSE <<>>]_vars

(* otherwise reported one incomplete record on a chain of a when record without
   payload and a fallback record whose payload is null *)
C20_Witness ==
  \E h \in Handles :
    /\ trace.last = "otherwise"
    /\ diag[h] = <<Diag("warn", "incomplete-conditions", "", 1)>>
    /\ Len(conditions[h]) = 2
    /\ Rec(h, 1).type = "when"
    /\ Rec(h, 2).type = "fallback" /\ Rec(h, 2).component = Null

(* C21: the condition of a when or match record is the one it was created
   with: no call but reset changes it, and a later match() with another
   subject or comparator leaves the conditions of the existing match records
   as they are. *)
C21_ConditionFixed ==
  [][\A h \in Handles :
       trace'.last # "reset" =>
         \A i \in 1..Len(conditions[h]) :
           /\ i <= Len(conditions'[h])
           /\ heap'[conditions'[h][i]].condition = Rec(h, i).condition]_vars

(* a record of case(1) made under match(1) is still true after match(NaN, strict),
   under which it would be false *)
C21_Witness ==
  \E h \in Handles :
    /\ trace.last = "match"
    /\ trace.lastMatch = <<NaN, Fn(CmpStrict)>>
    /\ Len(conditions[h]) >= 1
    /\ Rec(h, 1).type = "match"
    /\ Rec(h, 1).matchValue = Num(1)
    /\ Rec(h, 1).condition = JSTrue

(* the kind, condition and id of the records of h, in order *)
Keys(h) ==
  [i \in 1..Len(conditions[h]) |-> <<Rec(h, i).type, Rec(h, i).condition, Rec(h, i).id>>]

(* C22: between resets the sequence only grows at its end: over every call but
   reset the list of (kind, condition, id) before the call is a prefix of the
   list after it, so it is a prefix in every later state up to the next reset;
   a call appends at most one record. *)
C22_AppendOnly ==
  [][\A h \in Handles :
       trace'.last # "reset" =>
         /\ Len(Keys(h)') \in {Len(Keys(h)), Len(Keys(h)) + 1}
         /\ SubSeq(Keys(h)', 1, Len(Keys(h))) = Keys(h)]_vars

(* a record was appended behind a fallback record *)
C22_Witness ==
  \E h \in Handles :
    /\ trace.last = "case"
    /\ Len(conditions[h]) = 2
    /\ Rec(h, 1).type = "fallback"
    /\ Rec(h, 2).type = "match"

(* C23: getMatchedIndex returns the value the latest otherwise wrote, or -1 when
   there was none since the handle was created or reset; the other calls,
   getConditions included, leave it as it is. *)
C23_MatchedIndexIsLastWritten ==
  \A h \in Handles :
    trace.mode = "last" =>
      /\ getMatchedIndex(h) = trace.written
      /\ getConditions(Cur, h).meta[h].matchedIndex = trace.written

(* a case record received its payload after an otherwise that selected the
   first record *)
C23_Witness ==
  \E h \in Handles :
    /\ trace.last = "render"
    /\ trace.written = 0
    /\ Len(conditions[h]) = 2
    /\ Rec(h, 2).type = "match"
    /\ Rec(h, 2).component = Elem(1)
    /\ Rec(h, 2).condition = JSTrue

(* C24: debug() changes nothing of the chain state: the sequence, the records,
   the match context and matchedIndex are as before, so what otherwise and
   getConditions give after it is what they gave before it. *)
C24_DebugChangesNothing ==
  [][\A h \in Handles :
       (trace'.last = "debug" /\ Debug(h)) =>
         /\ result'[h] = Api
         /\ UNCHANGED <<conditions, heap, meta, conditionIdCounter, snapshot>>
         /\ \A d \in Defaults :
              /\ (otherwise(Cur, h, d).result)' = otherwise(Cur, h, d).result
              /\ (otherwise(Cur, h, d).meta)' = otherwise(Cur, h, d).meta
         /\ (getConditions(Cur, h).snapshot)' = getConditions(Cur, h).snapshot
         /\ \A v \in Subjects : (case(Cur, h, v).heap)' = case(Cur, h, v).heap]_vars

(* debug() on a chain of two records with an open match context, resolved to
   its second record *)
C24_Witness ==
  \E h \in Handles :
    /\ trace.last = "debug"
    /\ diag[h] = <<Diag("group", "debug-info", "", 1)>>
    /\ meta[h].isInMatchMode
    /\ Len(conditions[h]) = 2

(* a call of the two-handle behaviours made on handle h *)
CallOn(h) ==
  \/ \E c \in {JSTrue, JSFalse} : When(h, c)
  \/ Then(h, Elem(1))
  \/ Match(h, Num(1), Undefined)
  \/ Case(h, Num(1))
  \/ Render(h, Elem(2))
  \/ Reset(h)
  \/ Otherwise(h, Undefined)

(* C25: a call on one handle leaves every other handle as it was: its sequence,
   its records, its match context and matchedIndex, its last result, and what
   otherwise would return on it. *)
C25_HandlesAreSeparate ==
  [][\A h \in Handles :
       CallOn(h) =>
         \A g \in Handles \ {h} :
           /\ conditions'[g] = conditions[g]
           /\ Records(g)' = Records(g)
           /\ meta'[g] = meta[g]
           /\ result'[g] = result[g]
           /\ diag'[g] = diag[g]
           /\ \A d \in Defaults : (resolve(Cur, g, d))' = resolve(Cur, g, d)]_vars

(* both handles hold a chain: handle 1 an open match context and no match,
   handle 2 two records and a resolved branch *)
C25_Witness ==
  /\ trace.mode = "two"
  /\ Len(conditions[1]) = 1
  /\ meta[1].isInMatchMode
  /\ ~hasMatched(1)
  /\ Len(conditions[2]) = 2
  /\ ~meta[2].isInMatchMode
  /\ hasMatched(2)
  /\ conditions[2][1] < conditions[1][1]
  /\ conditions[1][1] < conditions[2][2]

(* the id number of a record *)
IdNumber(rec) == rec.id[2]

(* C26: id numbers are unique and increase over the whole program: a record
   appended by when(), case() or fallback() on any handle gets the number after
   the highest given so far, across handles and across reset(); a refused case(),
   an overwriting fallback(), match() and reset() give none; and along a
   sequence the numbers strictly increase. *)
C26_IdsIncrease ==
  [][LET c == conditionIdCounter IN
     /\ \A a \in DOMAIN heap : IdNumber(heap[a]) <= c
     /\ \A h \in Handles :
          /\ \A i, j \in 1..Len(conditions'[h]) :
               i < j => IdNumber(heap'[conditions'[h][i]]) < IdNumber(heap'[conditions'[h][j]])
          /\ ( \/ When(h, JSTrue)
               \/ meta[h].isInMatchMode /\ Case(h, Num(1))
               \/ FallbackPositions(h) = {} /\ Fallback(h, Elem(1)) ) =>
                /\ conditionIdCounter' = c + 1
                /\ Len(conditions'[h]) = Len(conditions[h]) + 1
                /\ IdNumber(heap'[conditions'[h][Len(conditions'[h])]]) = c + 1
                /\ \A a \in DOMAIN heap : heap'[a] = heap[a]
          /\ ( \/ ~meta[h].isInMatchMode /\ Case(h, Num(1))
               \/ FallbackPositions(h) # {} /\ Fallback(h, Elem(1))
               \/ Match(h, Num(1), Undefined)
               \/ Reset(h) ) =>
                /\ conditionIdCounter' = c
                /\ DOMAIN heap' \subseteq DOMAIN heap]_vars

(* handle 1 was reset after its first record; then handle 2 and handle 1 got a
   record each, and a second fallback() on handle 2 gave no number *)
C26_Witness ==
  /\ trace.mode = "two"
  /\ conditionIdCounter = 3
  /\ Len(conditions[1]) = 1 /\ IdNumber(Rec(1, 1)) = 3
  /\ Len(conditions[2]) = 1 /\ IdNumber(Rec(2, 1)) = 2
  /\ diag[2] = <<Warn("multiple-fallback")>>

(* C27: only reset() shrinks the chain: otherwise() leaves the sequence and its
   records as they are, and over every call but reset the records of the
   sequence stay where they are, in front of whatever the call appends; so the
   records of an earlier build-and-resolve pass stay in front of a later one. *)
C27_OnlyResetShrinks ==
  [][\A h \in Handles :
       /\ trace'.last = "otherwise" =>
            /\ conditions'[h] = conditions[h]
            /\ Records(h)' = Records(h)
       /\ trace'.last # "reset" =>
            /\ Len(conditions'[h]) >= Len(conditions[h])
            /\ SubSeq(conditions'[h], 1, Len(conditions[h])) = conditions[h]]_vars

(* a then() of a later pass, made after an otherwise selected the first record,
   which is still in front of the record the then() wrote to *)
C27_Witness ==
  \E h \in Handles :
    /\ trace.last = "then"
    /\ trace.written = 0
    /\ Len(conditions[h]) = 2
    /\ Selectable(h) = {1, 2}
    /\ Rec(h, 2).type = "when"
    /\ Rec(h, 2).component = Elem(2)

(* the JavaScript values that are falsy: false, 0, "", NaN, null, undefined *)
Falsy == {JSFalse, Num(0), Str(0), NaN, Null, Undefined}

(* C28: when(x) appends exactly one record: of kind when, without payload, its
   condition true unless x is falsy; it changes nothing else, logs the coercion
   warning exactly when x is not a boolean, and returns the handle. *)
C28_WhenAppendsOne ==
  [][\A h \in Handles : \A x \in WhenArgs :
       (trace'.last = "when" /\ When(h, x)) =>
         LET n == conditionIdCounter + 1 IN
         /\ conditionIdCounter' = n
         /\ conditions'[h] = Append(conditions[h], n)
         /\ \A a \in DOMAIN heap : heap'[a] = heap[a]
         /\ heap'[n] = [type |-> "when",
                        condition |-> IF x \in Falsy THEN JSFalse ELSE JSTrue,
                        matchValue |-> Undefined, component |-> Null,
                        id |-> <<"when", n>>]
         /\ meta' = meta
         /\ diag'[h] = IF x \in {JSTrue, JSFalse}
                       THEN <<>> ELSE <<Warn("when-expects-boolean")>>
         /\ result'[h] = Api]_vars

(* when() of a falsy value that is not a boolean, behind a complete record *)
C28_Witness ==
  \E h \in Handles :
    /\ trace.last = "when"
    /\ diag[h] = <<Warn("when-expects-boolean")>>
    /\ Len(conditions[h]) = 2
    /\ Rec(h, 1).component = Elem(1)
    /\ Rec(h, 2) = [type |-> "when", condition |-> JSFalse, matchValue |-> Undefined,
                    component |-> Null, id |-> <<"when", 3>>]

(* a and b are strictly equal, or both are NaN *)
SameValue(a, b) ==
  \/ a.k = "nan" /\ b.k = "nan"
  \/ a.k # "nan" /\ b.k # "nan" /\ a.k = b.k /\ a.v = b.v

(* C29: under the default comparator the record of case(v) is satisfied exactly
   when the subject and v are strictly equal or both NaN; so
   match(NaN).case(NaN).render(A).otherwise() returns A. *)
C29_DefaultComparator ==
  [][\A h \in Handles : \A v \in MatchValues :
       (trace'.last = "case" /\ meta[h].comparator = Fn(CmpDefault) /\ Case(h, v)) =>
         /\ heap'[conditionIdCounter'].condition =
              IF SameValue(meta[h].value, v) THEN JSTrue ELSE JSFalse
         /\ (conditions[h] = <<>> /\ meta[h].value = NaN /\ v = NaN) =>
              (resolve(render(Cur, h, Elem(1)), h, Undefined))' = Elem(1)]_vars

(* match(NaN).case(NaN).render(A).otherwise() returned A *)
C29_Witness ==
  \E h \in Handles :
    /\ trace.last = "otherwise"
    /\ trace.lastMatch = <<NaN, Undefined>>
    /\ conditionIdCounter = 1
    /\ Len(conditions[h]) = 1
    /\ Rec(h, 1).type = "match" /\ Rec(h, 1).matchValue = NaN
    /\ result[h] = Elem(1)
    /\ getMatchedIndex(h) = 0

(* C30: match(value, c) with c not callable logs one warning about the
   comparator and puts the default comparator in force, so the case(v) calls
   that follow are satisfied exactly when value and v are strictly equal or
   both NaN; with c omitted the default comparator is in force and no such
   warning is logged. *)
C30_NonCallableComparator ==
  [][\A h \in Handles :
       /\ \A x \in MatchValues : \A c \in ComparatorArgs \ {Fn(CmpStrict)} :
            (trace'.last = "match" /\ Match(h, x, c)) =>
              /\ meta'[h].comparator = Fn(CmpDefault)
              /\ diag'[h] =
                   (IF meta[h].isInMatchMode THEN <<Warn("multiple-match")>> ELSE <<>>)
                     \o (IF c = Undefined THEN <<>> ELSE <<Warn("comparator-not-function")>>)
       /\ \A v \in MatchValues :
            (/\ trace'.last = "case"
             /\ trace.lastMatch # <<>>
             /\ trace.lastMatch[2] # Fn(CmpStrict)
             /\ Case(h, v)) =>
              /\ heap'[conditionIdCounter'].condition =
                   IF SameValue(trace.lastMatch[1], v) THEN JSTrue ELSE JSFalse
              /\ diag'[h] = <<>>]_vars

(* case(NaN) was satisfied after match(NaN, c) with c a string *)
C30_Witness ==
  \E h \in Handles :
    /\ trace.last = "case"
    /\ trace.lastMatch = <<NaN, Str(1)>>
    /\ Len(conditions[h]) = 1
    /\ Rec(h, 1).matchValue = NaN
    /\ Rec(h, 1).condition = JSTrue

(* C31: comparators.range(value, min, max) is true exactly when value lies
   between min and max, both included. *)
C31_RangeInclusive ==
  (trace.mode = "range" /\ trace.pc = 1) =>
    (trace.out = JSTrue <=> trace.args[1] \in trace.args[2]..trace.args[3])

(* range(value, min, max) with value = max above min gave true *)
C31_Witness ==
  /\ trace.mode = "range"
  /\ trace.pc = 1
  /\ trace.args[2] < trace.args[3]
  /\ trace.args[1] = trace.args[3]
  /\ trace.out = JSTrue

(* the state s with the records at the positions S of handle h taken out *)
Without(s, h, S) ==
  LET gone == {s.conditions[h][i] : i \in S} IN
  [s EXCEPT !.conditions[h] = SelectSeq(@, LAMBDA a : a \notin gone)]

(* C32: incomplete branches are ignored by resolution: otherwise(d) returns what
   it would return with the when/match records without payload removed, all of
   them or any of them; a satisfied record without payload neither wins nor
   keeps a later satisfied complete record, the fallback or d from being
   returned. *)
C32_IncompleteIgnored ==
  [][\A h \in Handles : \A d \in Defaults :
       (result'[h] # Api /\ Otherwise(h, d)) =>
         /\ \A S \in SUBSET incompleteConditions(Cur, h) :
              result'[h] = resolve(Without(Cur, h, S), h, d)
         /\ result'[h] = Expected(h, d)
         /\ getMatchedIndex(h)' \notin {i - 1 : i \in incompleteConditions(Cur, h)}]_vars

(* otherwise returned the payload of the second record, behind a first record
   that is satisfied and has no payload *)
C32_Witness ==
  \E h \in Handles :
    /\ AfterOtherwise(h)
    /\ Len(conditions[h]) = 2
    /\ Rec(h, 1).type = "when" /\ Rec(h, 1).condition = JSTrue
    /\ Rec(h, 1).component = Null
    /\ Selectable(h) = {2}
    /\ result[h] = Rec(h, 2).component
    /\ getMatchedIndex(h) = 1
    /\ diag[h] = <<Diag("warn", "incomplete-conditions", "", 1)>>

(* C33: a stale match is sticky: with only non-null payloads supplied, once an
   otherwise() call has matched position i, every later otherwise() call with
   no reset() in between matches position i and returns the payload of that
   record, whatever when/then, match/case/render and fallback calls are made
   in between, also when they describe a new chain whose own first satisfied
   branch is another record. *)
C33_StaleMatchIsSticky ==
  [][\A h \in Handles :
       (trace'.last = "otherwise" /\ trace.written >= 0) =>
         /\ getMatchedIndex(h)' = trace.written
         /\ result'[h] = heap'[conditions'[h][trace.written + 1]].component]_vars

(* a second otherwise(), made after a second satisfied branch with its own
   payload was appended behind the record the first otherwise() had matched,
   matched that first record again *)
C33_Witness ==
  \E h \in Handles :
    /\ trace.mode = "passes"
    /\ trace.last = "otherwise"
    /\ trace.passes = 2
    /\ trace.args = <<1, 2>>
    /\ Selectable(h) = {1, 2}
    /\ Rec(h, 1).component = Elem(1)
    /\ Rec(h, 2).component = Elem(2)
    /\ getMatchedIndex(h) = 0
    /\ result[h] = Elem(1)

(* C34: in every reachable state matchedIndex is -1 or a position of the current
   sequence (0 <= matchedIndex < length) whose record is of kind when or match
   with condition true; never a fallback record or a position beyond the end,
   also after further builder calls and after reset(). *)
C34_MatchedIndexValid ==
  \A h \in Handles :
    \/ getMatchedIndex(h) = -1
    \/ /\ 0 <= getMatchedIndex(h)
       /\ getMatchedIndex(h) < Len(conditions[h])
       /\ Rec(h, getMatchedIndex(h) + 1).type \in {"when", "match"}
       /\ Rec(h, getMatchedIndex(h) + 1).condition = JSTrue

(* a builder call made after an otherwise() that matched the second record,
   which sits behind a fallback record *)
C34_Witness ==
  \E h \in Handles :
    /\ getMatchedIndex(h) = 1
    /\ result[h] = Api
    /\ Len(conditions[h]) = 2
    /\ Rec(h, 1).type = "fallback"
    /\ Rec(h, 2).type = "match"

(* C35: a match context, once opened by match(), stays open with the same
   subject and comparator until the next match() or reset(): when, then, case,
   render, fallback, debug and otherwise leave it as it is, so a case(v) made
   after intervening calls still appends a match record, evaluated against the
   subject and with the comparator of that match(). *)
C35_ContextStaysOpen ==
  [][\A h \in Handles :
       /\ trace'.last \notin {"match", "reset"} =>
            /\ meta'[h].isInMatchMode = meta[h].isInMatchMode
            /\ meta'[h].value = meta[h].value
            /\ meta'[h].comparator = meta[h].comparator
       /\ trace'.lastMatch # <<>> =>
            /\ meta'[h].isInMatchMode
            /\ meta'[h].value = trace'.lastMatch[1]
            /\ meta'[h].comparator = InForce(trace'.lastMatch[2])
       /\ \A v \in Subjects :
            (trace'.last = "case" /\ trace.lastMatch # <<>> /\ Case(h, v)) =>
              /\ conditions'[h] = Append(conditions[h], conditionIdCounter')
              /\ heap'[conditionIdCounter'].type = "match"
              /\ heap'[conditionIdCounter'].matchValue = v
              /\ heap'[conditionIdCounter'].condition =
                   IF Call(InForce(trace.lastMatch[2]), trace.lastMatch[1], v) = "true"
                   THEN JSTrue ELSE JSFalse]_vars

(* case(NaN) appended a satisfied match record for the subject of a match() made
   before a when(), a then() and an otherwise() *)
C35_Witness ==
  \E h \in Handles :
    /\ trace.mode = "context"
    /\ trace.last = "case"
    /\ trace.lastMatch = <<NaN, Undefined>>
    /\ {"when", "then", "otherwise"} \subseteq trace.since
    /\ Len(conditions[h]) = 2
    /\ Rec(h, 1).type = "when"
    /\ Rec(h, 2).type = "match"
    /\ Rec(h, 2).matchValue = NaN
    /\ Rec(h, 2).condition = JSTrue

(* C36: only the last record of the sequence can receive or change a payload
   through then()/render(): once another record has been appended behind a
   when or match record, the payload of that record stays as it is until
   reset(), so a record left without payload and followed by another record
   stays incomplete; when(a).when(b).then(X) attaches X to the second record
   only. *)
C36_OnlyLastRecordAttaches ==
  [][\A h \in Handles :
       /\ trace'.last # "reset" =>
            \A i \in 1..(Len(conditions[h]) - 1) :
              Rec(h, i).type \in {"when", "match"} =>
                heap'[conditions'[h][i]].component = Rec(h, i).component
       /\ trace'.last \in {"then", "render"} =>
            /\ conditions'[h] = conditions[h]
            /\ \A i \in 1..(Len(conditions[h]) - 1) : heap'[conditions[h][i]] = Rec(h, i)
       /\ \A p \in Payloads :
            (/\ trace'.last = "when"
             /\ Len(conditions'[h]) = 2
             /\ Rec(h, 1).type = "when"
             /\ Rec(h, 1).component = Null) =>
              LET s == then(Cur, h, p) IN
              /\ (R(s, h, 1).component)' = Null
              /\ (R(s, h, 2).component)' = p]_vars

(* when(a).when(b).then(X): X is on the second record, the first has no payload *)
C36_Witness ==
  \E h \in Handles :
    /\ trace.last = "then"
    /\ diag[h] = <<>>
    /\ conditionIdCounter = 2
    /\ Len(conditions[h]) = 2
    /\ Rec(h, 1).type = "when" /\ Rec(h, 1).component = Null
    /\ Rec(h, 2).type = "when" /\ Rec(h, 2).component = Elem(1)

(* C37: the position of the fallback record does not affect priority: a
   satisfied when/match record with a payload, appended behind the fallback
   record, is still what otherwise() returns, in preference to the fallback
   payload. *)
C37_FallbackPositionIrrelevant ==
  [][\A h \in Handles : \A d \in Defaults :
       (/\ result'[h] # Api
        /\ \E f \in FallbackPositions(h) : \E j \in Selectable(h) : f < j
        /\ Otherwise(h, d)) =>
         /\ result'[h] = Rec(h, Min(Selectable(h))).component
         /\ getMatchedIndex(h)' = Min(Selectable(h)) - 1]_vars

(* otherwise() returned the payload of a satisfied when record that sits behind
   a fallback record with another payload *)
C37_Witness ==
  \E h \in Handles :
    /\ AfterOtherwise(h)
    /\ Len(conditions[h]) = 2
    /\ Rec(h, 1).type = "fallback" /\ Rec(h, 1).component = Elem(1)
    /\ Rec(h, 2).type = "when" /\ Rec(h, 2).condition = JSTrue
    /\ Rec(h, 2).component = Elem(2)
    /\ result[h] = Elem(2)
    /\ getMatchedIndex(h) = 1

(* the largest member of a non-empty set of integers *)
Max(S) == CHOOSE i \in S : \A j \in S : j <= i

(* C38: with match(score, (a, b) => a >= b) followed by case(t).render(P_t) for
   thresholds t in strictly descending order, otherwise(d) returns the payload
   of the largest threshold that is <= score; when score is below every
   threshold it returns the fallback payload, or d (null when omitted) where
   no fallback was given. *)
C38_LargestThresholdWins ==
  (trace.mode = "grade" /\ trace.pc = 4) =>
    LET score == trace.args[1]
        reached == {trace.args[i] : i \in 2..Len(trace.args)} \cap {t \in Numbers : t <= score}
    IN /\ reached # {} =>
            /\ result[1] = GradePayload(Max(reached))
            /\ Rec(1, getMatchedIndex(1) + 1).matchValue = Num(Max(reached))
       /\ reached = {} =>
            /\ result[1] = IF trace.count.fallback THEN GradeFallbackPayload
                           ELSE IF trace.out = Undefined THEN Null ELSE trace.out
            /\ getMatchedIndex(1) = -1

(* the score equals the second of two descending thresholds: its payload is
   returned, not that of the first *)
C38_Witness ==
  /\ trace.mode = "grade"
  /\ trace.pc = 4
  /\ Len(trace.args) = 3
  /\ trace.args[2] > trace.args[1]
  /\ trace.args[3] = trace.args[1]
  /\ result[1] = GradePayload(trace.args[1])
  /\ getMatchedIndex(1) = 1
====
